---------------------------- MODULE Spec2Model ----------------------------
(***************************************************************************)
(* Model of app.py (nukedashiso/order-system): the cut-off evaluation, the  *)
(* order submission handler, the payment toggle handler, the per-item       *)
(* aggregation and the CSV persistence they share.                          *)
(*                                                                          *)
(* Text is a sequence of one-character strings, so that str.strip, the      *)
(* strptime layouts and the CSV cell parsing are computed, not assumed.     *)
(* A unit price is a float in the code; here it is an integer count of      *)
(* half units (30.0 is 60, 0.5 is 1): every such value is exact in binary   *)
(* floating point, and int(x) is the quotient by 2 of the scaled product.   *)
(***************************************************************************)
EXTENDS Integers, Sequences, FiniteSets, TLC

VARIABLES
    orders_csv,   \* data/orders.csv: rows of cell text
    items_csv,    \* data/order_items.csv: rows of cell text / numbers
    excel,        \* exports/orders.xlsx, sheet Orders: appended ledger rows
    clock,        \* seconds elapsed on the wall clock since Epoch
    issued,       \* number of order identifiers generated so far
    sess,         \* per browser session: the position and locals of its script run
    hist,         \* history: what has happened so far (no effect on the program)
    cut,          \* one evaluation of cutoff_state: input and result
    view          \* one evaluation of the item summary: input and result

vars == <<orders_csv, items_csv, excel, clock, issued, sess, hist, cut, view>>

-----------------------------------------------------------------------------
(* Bounds of the model *)

MaxTicks == 1        \* seconds the wall clock may advance
MaxOrders == 2       \* order identifiers that may be generated
MaxItems == 3        \* line items of a drawn item set (item summary)

-----------------------------------------------------------------------------
(* Text *)

Digits == <<"0", "1", "2", "3", "4", "5", "6", "7", "8", "9">>

IsDigit(c) == \E i \in 1..10 : Digits[i] = c

DigitVal(c) == (CHOOSE i \in 1..10 : Digits[i] = c) - 1

IsSpace(c) == c = " "

RECURSIVE lstrip(_)
lstrip(s) == IF s # <<>> /\ IsSpace(Head(s)) THEN lstrip(Tail(s)) ELSE s

RECURSIVE rstrip(_)
rstrip(s) ==
    IF s # <<>> /\ IsSpace(s[Len(s)]) THEN rstrip(SubSeq(s, 1, Len(s) - 1)) ELSE s

\* str.strip(): leading and trailing whitespace removed
strip(s) == rstrip(lstrip(s))

\* str.split(sep): the pieces between the occurrences of sep
RECURSIVE split(_, _)
split(s, sep) ==
    IF \A i \in 1..Len(s) : s[i] # sep THEN <<s>>
    ELSE LET i == CHOOSE k \in 1..Len(s) : s[k] = sep /\ \A j \in 1..(k - 1) : s[j] # sep
         IN  <<SubSeq(s, 1, i - 1)>> \o split(SubSeq(s, i + 1, Len(s)), sep)

\* int(text): surrounding whitespace ignored, then decimal digits
IsIntText(s) == strip(s) # <<>> /\ \A i \in 1..Len(strip(s)) : IsDigit(strip(s)[i])

RECURSIVE DigitsVal(_)
DigitsVal(s) ==
    IF s = <<>> THEN 0 ELSE 10 * DigitsVal(SubSeq(s, 1, Len(s) - 1)) + DigitVal(s[Len(s)])

int(s) == DigitsVal(strip(s))

-----------------------------------------------------------------------------
(* Wall-clock time *)

\* a datetime in the zone TZ, to the second
DateTime(Y, m, d, H, M, S) == [Y |-> Y, m |-> m, d |-> d, H |-> H, M |-> M, S |-> S]

\* datetime comparison: both operands carry the same tzinfo, so the wall
\* fields are compared, most significant first
DtLess(a, b) ==
    \/ a.Y < b.Y
    \/ a.Y = b.Y /\ a.m < b.m
    \/ a.Y = b.Y /\ a.m = b.m /\ a.d < b.d
    \/ a.Y = b.Y /\ a.m = b.m /\ a.d = b.d /\ a.H < b.H
    \/ a.Y = b.Y /\ a.m = b.m /\ a.d = b.d /\ a.H = b.H /\ a.M < b.M
    \/ a.Y = b.Y /\ a.m = b.m /\ a.d = b.d /\ a.H = b.H /\ a.M = b.M /\ a.S < b.S

DtGeq(a, b) == ~DtLess(a, b)

\* the instant the model's wall clock starts at: 2025-10-14 12:29:59
Epoch == DateTime(2025, 10, 14, 12, 29, 59)

\* datetime.now(TZ) when the wall clock reads t seconds after Epoch
NowAt(t) ==
    LET s   == Epoch.S + t
        mi  == Epoch.M + (s \div 60)
        h   == Epoch.H + (mi \div 60)
    IN  DateTime(Epoch.Y, Epoch.m, Epoch.d, h, mi % 60, s % 60)


-----------------------------------------------------------------------------
(* cutoff_state *)

\* the configured deadline, "2025/10/14 12:30"
CUTOFF ==
    <<"2", "0", "2", "5", "/", "1", "0", "/", "1", "4", " ", "1", "2", ":", "3", "0">>

\* the characters that select the date-time branch; the two ideographs of
\* the source (year, month) are written here by their romanised names
DateMarks == {"/", "-", "nian", "yue"}

Directives == {"%Y", "%m", "%d", "%H", "%M"}

\* the layouts tried, in order
Layouts ==
    << <<"%Y", "/", "%m", "/", "%d", ",", " ", "%H", ":", "%M">>,
       <<"%Y", "-", "%m", "-", "%d", ",", " ", "%H", ":", "%M">>,
       <<"%Y", "/", "%m", "/", "%d", " ", "%H", ":", "%M">> >>

\* the result of a failed match (ValueError), and the start of a match
NoMatch == [k \in Directives \cup {"ok"} |-> IF k = "ok" THEN FALSE ELSE 0]

EmptyMatch == [k \in Directives \cup {"ok"} |-> IF k = "ok" THEN TRUE ELSE 0]

LeadingDigits(s, n) == Len(s) >= n /\ \A i \in 1..n : IsDigit(s[i])

\* how many characters of s the directive consumes (0: it does not match).
\* %Y is four digits; the others take two digits when those are in range,
\* else one
FieldWidth(f, s) ==
    LET two == IF LeadingDigits(s, 2) THEN DigitsVal(SubSeq(s, 1, 2)) ELSE 0 - 1
        one == IF LeadingDigits(s, 1) THEN DigitsVal(SubSeq(s, 1, 1)) ELSE 0 - 1
    IN  CASE f = "%Y" -> IF LeadingDigits(s, 4) THEN 4 ELSE 0
          [] f = "%m" -> IF two \in 1..12 THEN 2 ELSE IF one \in 1..9 THEN 1 ELSE 0
          [] f = "%d" -> IF two \in 1..31 THEN 2 ELSE IF one \in 1..9 THEN 1 ELSE 0
          [] f = "%H" -> IF two \in 0..23 THEN 2 ELSE IF one \in 0..9 THEN 1 ELSE 0
          [] f = "%M" -> IF two \in 0..59 THEN 2 ELSE IF one \in 0..9 THEN 1 ELSE 0

\* the fields read from s along the layout fmt; all of s must be consumed
RECURSIVE strptime_match(_, _, _)
strptime_match(s, fmt, acc) ==
    IF fmt = <<>> THEN (IF s = <<>> THEN acc ELSE NoMatch)
    ELSE LET f == Head(fmt) IN
         IF f \in Directives
         THEN LET w == FieldWidth(f, s) IN
              IF w = 0 THEN NoMatch
              ELSE strptime_match(SubSeq(s, w + 1, Len(s)), Tail(fmt),
                                  [acc EXCEPT ![f] = DigitsVal(SubSeq(s, 1, w))])
         ELSE IF IsSpace(f)
         THEN IF s # <<>> /\ IsSpace(Head(s))
              THEN strptime_match(lstrip(s), Tail(fmt), acc)
              ELSE NoMatch
         ELSE IF s # <<>> /\ Head(s) = f
              THEN strptime_match(Tail(s), Tail(fmt), acc)
              ELSE NoMatch

IsLeap(Y) == (Y % 4 = 0 /\ Y % 100 # 0) \/ Y % 400 = 0

DaysIn(Y, m) ==
    IF m = 2 THEN (IF IsLeap(Y) THEN 29 ELSE 28)
    ELSE IF m \in {4, 6, 9, 11} THEN 30 ELSE 31

\* datetime.strptime(text, fmt): the match, refused (ValueError) as well
\* when the day does not exist in the month
strptime(text, fmt) ==
    LET r == strptime_match(text, fmt, EmptyMatch)
    IN  IF r["ok"] /\ r["%Y"] >= 1 /\ r["%d"] <= DaysIn(r["%Y"], r["%m"]) THEN r ELSE NoMatch

\* the for/else over the layouts: the first layout that parses wins
RECURSIVE FirstLayout(_, _)
FirstLayout(text, i) ==
    IF i > Len(Layouts) THEN NoMatch
    ELSE IF strptime(text, Layouts[i])["ok"] THEN strptime(text, Layouts[i])
    ELSE FirstLayout(text, i + 1)

\* the try block: the deadline read from cutoff_str, ok = FALSE when any
\* step raises
ParseCutoff(cutoff_str, now) ==
    IF \E i \in 1..Len(cutoff_str) : cutoff_str[i] \in DateMarks
    THEN LET r == FirstLayout(strip(cutoff_str), 1)
         IN  [ok |-> r["ok"],
              dt |-> DateTime(r["%Y"], r["%m"], r["%d"], r["%H"], r["%M"], 0)]
    ELSE LET parts == split(strip(cutoff_str), ":")
             good  == /\ Len(parts) = 2
                      /\ IsIntText(parts[1]) /\ IsIntText(parts[2])
                      /\ int(parts[1]) \in 0..23 /\ int(parts[2]) \in 0..59
         IN  [ok |-> good,
              dt |-> IF good
                     THEN DateTime(now.Y, now.m, now.d, int(parts[1]), int(parts[2]), 0)
                     ELSE now]

\* the deadline in force: the parsed one, or 18:00 today when parsing raised
CutoffOf(cutoff_str, now) ==
    IF ParseCutoff(cutoff_str, now).ok THEN ParseCutoff(cutoff_str, now).dt
    ELSE DateTime(now.Y, now.m, now.d, 18, 0, 0)

PassedStrict(now, cutoff) == DtLess(cutoff, now)

\* the test "now >= cutoff"
Passed(now, cutoff) == DtGeq(now, cutoff)

\* cutoff_state(cutoff_str) at the instant now: (passed, the deadline shown
\* in the message)
cutoff_state(cutoff_str, now) ==
    [passed |-> Passed(now, CutoffOf(cutoff_str, now)),
     cutoff |-> CutoffOf(cutoff_str, now)]

-----------------------------------------------------------------------------
(* CSV I/O *)

\* a missing value of a DataFrame cell
NaN == <<"<NaN>">>

\* cell texts pandas.read_csv reads as missing, besides the empty cell
\* (dtype=str does not switch this off)
NA_VALUES ==
    { <<"N", "A">>, <<"N", "/", "A">>, <<"n", "/", "a">>, <<"N", "a", "N">>,
      <<"n", "a", "n">>, <<"N", "U", "L", "L">>, <<"n", "u", "l", "l">> }

\* pd.read_csv(..., dtype=str) on one cell
read_cell(text) == IF text = <<>> \/ text \in NA_VALUES THEN NaN ELSE text

\* DataFrame.to_csv on one cell: a missing value is written as the empty cell
write_cell(v) == IF v = NaN THEN <<>> ELSE v

\* DataFrame.fillna("") on one cell
fillna(v) == IF v = NaN THEN <<>> ELSE v

\* created_at is "%Y-%m-%d %H:%M:%S" text; its cell is kept as the fields the
\* text spells, which is never empty and never an NA text
load_orders(csv) ==
    [i \in 1..Len(csv) |->
        [order_id   |-> read_cell(csv[i].order_id),
         user_name  |-> read_cell(csv[i].user_name),
         note       |-> read_cell(csv[i].note),
         created_at |-> csv[i].created_at,
         is_paid    |-> read_cell(csv[i].is_paid)]]

\* qty and unit_price cells hold the numbers to_csv wrote; to_numeric reads
\* them back unchanged
load_order_items(csv) ==
    [i \in 1..Len(csv) |->
        [order_id   |-> fillna(read_cell(csv[i].order_id)),
         item_name  |-> fillna(read_cell(csv[i].item_name)),
         qty        |-> csv[i].qty,
         unit_price |-> csv[i].unit_price]]

save_orders_drop_last(df) ==
    [i \in 1..(Len(df) - 1) |->
        [order_id   |-> write_cell(df[i].order_id),
         user_name  |-> write_cell(df[i].user_name),
         note       |-> write_cell(df[i].note),
         created_at |-> df[i].created_at,
         is_paid    |-> write_cell(df[i].is_paid)]]

\* the text df.to_csv(ORDERS_CSV) leaves in the file
save_orders(df) ==
    [i \in 1..Len(df) |->
        [order_id   |-> write_cell(df[i].order_id),
         user_name  |-> write_cell(df[i].user_name),
         note       |-> write_cell(df[i].note),
         created_at |-> df[i].created_at,
         is_paid    |-> write_cell(df[i].is_paid)]]

\* the text df.to_csv(ORDER_ITEMS_CSV) leaves in the file
save_order_items(df) ==
    [i \in 1..Len(df) |->
        [order_id   |-> write_cell(df[i].order_id),
         item_name  |-> write_cell(df[i].item_name),
         qty        |-> df[i].qty,
         unit_price |-> df[i].unit_price]]

-----------------------------------------------------------------------------
(* Values *)

\* is_paid: the two cell texts of the source, "yes" and "no", romanised
PAID_YES == <<"s", "h", "i">>
PAID_NO  == <<"f", "o", "u">>

HexDigits ==
    <<"0", "1", "2", "3", "4", "5", "6", "7", "8", "9", "a", "b", "c", "d", "e", "f">>

\* uuid.uuid4().hex[:12]: a fresh identifier, the n-th one generated
uuid4_hex(n) == <<"e", HexDigits[(n % 16) + 1]>>

\* int(x) of a float x >= 0 given in half units: truncation
int_of_halves(h) == h \div 2

RECURSIVE SumOver(_, _)
SumOver(f, n) == IF n = 0 THEN 0 ELSE SumOver(f, n - 1) + f[n]

-----------------------------------------------------------------------------
(* Sessions *)

Sessions == {"s1", "s2"}

\* what a user may type into the form
Names == { <<" ">>, <<" ", "A">>, <<"N", "A">> }

Notes == { <<>>, <<"o", "k", " ">> }

Tea == <<"T", "e", "a">>

TeaSp   == [item_name |-> <<" ">> \o Tea, unit_price |-> 60, qty |-> 2]  \* " Tea" at 30.0
TeaHalf == [item_name |-> Tea,            unit_price |-> 1,  qty |-> 1]  \* "Tea" at 0.5
Blank   == [item_name |-> <<" ">>,        unit_price |-> 20, qty |-> 1]  \* blank name at 10.0
TeaNone == [item_name |-> Tea,            unit_price |-> 60, qty |-> 0]  \* quantity 0

\* the rows of the form (it starts with two rows)
Drafts == { <<TeaSp, Blank>>, <<TeaHalf, TeaHalf>>, <<Blank, TeaNone>> }

NoTime == DateTime(0, 0, 0, 0, 0, 0)

\* a session between two script runs; result is how its last run ended:
\* "ok" (to its end, or none yet), "EmptyName" / "NoValidItems" (st.error and
\* st.stop), "IndexError" (an uncaught exception)
Idle ==
    [pc |-> "idle", passed |-> FALSE, name |-> <<>>, note |-> <<>>, rows |-> <<>>,
     total |-> 0, orders_df |-> <<>>, items_df |-> <<>>, item_rows |-> <<>>,
     oid |-> <<>>, now |-> NoTime, target |-> <<>>, result |-> "ok"]

\* the script positions between the first load and the last save of a run
InFlight(t) == sess[t].pc \in {"load_items", "save_orders", "save_items", "toggle_save"}

\* the runs that will still generate an order identifier
Pending == {t \in Sessions : sess[t].pc \in {"validate", "load_orders", "load_items"}}

\* the form total: int(unit_price * qty) added up over every row of the form
FormTotal(rows) ==
    SumOver([i \in 1..Len(rows) |-> int_of_halves(rows[i].unit_price * rows[i].qty)],
            Len(rows))

valid_rows_any_qty(rows) == SelectSeq(rows, LAMBDA r : strip(r.item_name) # <<>>)

\* the rows kept for the order
valid_rows(rows) == SelectSeq(rows, LAMBDA r : strip(r.item_name) # <<>> /\ r.qty > 0)

\* "not name.strip()"
NameMissing(name) == strip(name) = <<>>

\* the order row built for the submission
OrderRow(oid, name, note, now) ==
    [order_id |-> oid, user_name |-> strip(name), note |-> strip(note),
     created_at |-> now, is_paid |-> PAID_NO]

\* the line-item rows built from the kept rows
ItemRows(oid, rows) ==
    [i \in 1..Len(rows) |->
        [order_id |-> oid, item_name |-> strip(rows[i].item_name),
         qty |-> rows[i].qty, unit_price |-> rows[i].unit_price]]

\* the wall clock advances by a second
Tick ==
    /\ clock < MaxTicks
    /\ clock' = clock + 1
    /\ UNCHANGED <<orders_csv, items_csv, excel, issued, sess>>

\* ordering mode, a run after the deadline: every input and the submit
\* button are disabled, nothing is submitted
OrderingRunClosed(s) ==
    /\ sess[s].pc = "idle"
    /\ cutoff_state(CUTOFF, NowAt(clock)).passed
    /\ sess' = [sess EXCEPT ![s] = [Idle EXCEPT !.passed = TRUE]]
    /\ UNCHANGED <<orders_csv, items_csv, excel, clock, issued>>

\* ordering mode, a run before the deadline in which the form is submitted:
\* the cut-off is evaluated, the rows, name and note are read from the form
\* and the total is accumulated
OrderingRun(s, names, notes, drafts) ==
    /\ sess[s].pc = "idle"
    /\ issued + Cardinality(Pending) < MaxOrders
    /\ ~cutoff_state(CUTOFF, NowAt(clock)).passed
    /\ \E name \in names, note \in notes, rows \in drafts :
          sess' = [sess EXCEPT ![s] =
                      [Idle EXCEPT !.pc = "validate", !.name = name, !.note = note,
                                   !.rows = rows, !.total = FormTotal(rows)]]
    /\ UNCHANGED <<orders_csv, items_csv, excel, clock, issued>>

\* "if submitted:" the two validations, each ending the run (st.stop)
Validate(s) ==
    /\ sess[s].pc = "validate"
    /\ sess' = [sess EXCEPT ![s] =
          IF NameMissing(sess[s].name)
          THEN [Idle EXCEPT !.result = "EmptyName"]
          ELSE IF valid_rows(sess[s].rows) = <<>>
          THEN [Idle EXCEPT !.result = "NoValidItems"]
          ELSE [@ EXCEPT !.pc = "load_orders"]]
    /\ UNCHANGED <<orders_csv, items_csv, excel, clock, issued>>

\* orders_df = load_orders()
LoadOrders(s) ==
    /\ sess[s].pc = "load_orders"
    /\ sess' = [sess EXCEPT ![s].pc = "load_items",
                            ![s].orders_df = load_orders(orders_csv)]
    /\ UNCHANGED <<orders_csv, items_csv, excel, clock, issued>>

\* items_df = load_order_items(); the identifier and the timestamp are
\* taken; the order row and the item rows are appended to the two frames
LoadItems(s) ==
    /\ sess[s].pc = "load_items"
    /\ LET oid  == uuid4_hex(issued)
           now  == NowAt(clock)
           rows == ItemRows(oid, valid_rows(sess[s].rows))
       IN  sess' = [sess EXCEPT
               ![s].pc = "save_orders",
               ![s].oid = oid,
               ![s].now = now,
               ![s].orders_df =
                   Append(@, OrderRow(oid, sess[s].name, sess[s].note, now)),
               ![s].item_rows = rows,
               ![s].items_df = load_order_items(items_csv) \o rows]
    /\ issued' = issued + 1
    /\ UNCHANGED <<orders_csv, items_csv, excel, clock>>

\* save_orders(orders_df)
SaveOrders(s) ==
    /\ sess[s].pc = "save_orders"
    /\ orders_csv' = save_orders(sess[s].orders_df)
    /\ sess' = [sess EXCEPT ![s].pc = "save_items"]
    /\ UNCHANGED <<items_csv, excel, clock, issued>>

\* save_order_items(items_df)
SaveItems(s) ==
    /\ sess[s].pc = "save_items"
    /\ items_csv' = save_order_items(sess[s].items_df)
    /\ sess' = [sess EXCEPT ![s].pc = "excel"]
    /\ UNCHANGED <<orders_csv, excel, clock, issued>>

\* the ledger row handed to excel_append_order; the detail string is kept
\* as the item rows it spells
LedgerRow(r) ==
    [time |-> r.now, order_id |-> r.oid, name |-> strip(r.name),
     detail |-> r.item_rows, total |-> r.total, note |-> strip(r.note),
     paid |-> PAID_NO]

\* excel_append_order appends the row and the run reports success; the draft
\* stays in the form, where the next run reads it anew
ExcelAppend(s) ==
    /\ sess[s].pc = "excel"
    /\ excel' = Append(excel, LedgerRow(sess[s]))
    /\ sess' = [sess EXCEPT ![s] = Idle]
    /\ UNCHANGED <<orders_csv, items_csv, clock, issued>>

-----------------------------------------------------------------------------
(* Confirm mode *)

\* mask = (all_orders["order_id"] == order_id), as the set of row indices
Mask(all_orders, order_id) ==
    {i \in 1..Len(all_orders) : all_orders[i].order_id = order_id}

\* .iloc[0] of the masked column: the first masked row's flag
FirstPaid(all_orders, order_id) ==
    all_orders[CHOOSE i \in Mask(all_orders, order_id) :
                   \A j \in Mask(all_orders, order_id) : i <= j].is_paid

\* "no" if cur == "yes" else "yes"
Flip(cur) == IF cur = PAID_YES THEN PAID_NO ELSE PAID_YES

toggle_paid_keep_masked(all_orders, order_id) ==
    SelectSeq([i \in 1..Len(all_orders) |->
                  [all_orders[i] EXCEPT !.is_paid = Flip(FirstPaid(all_orders, order_id))]],
              LAMBDA r : r.order_id = order_id)

\* all_orders.loc[mask, "is_paid"] = the flipped flag
toggle_paid(all_orders, order_id) ==
    [i \in 1..Len(all_orders) |->
        IF i \in Mask(all_orders, order_id)
        THEN [all_orders[i] EXCEPT !.is_paid = Flip(FirstPaid(all_orders, order_id))]
        ELSE all_orders[i]]

\* the export's total of one order: int((qty * unit_price).sum()) over the
\* order's line items
order_total(items, order_id) ==
    int_of_halves(
        SumOver([i \in 1..Len(items) |->
                    IF items[i].order_id = order_id
                    THEN items[i].qty * items[i].unit_price ELSE 0],
                Len(items)))

\* confirm mode with no order stored: "no orders yet", st.stop()
AdminRunEmpty(s) ==
    /\ sess[s].pc = "idle"
    /\ load_orders(orders_csv) = <<>>
    /\ sess' = [sess EXCEPT ![s] = Idle]
    /\ UNCHANGED <<orders_csv, items_csv, excel, clock, issued>>

\* confirm mode: the orders are loaded and listed (the summary and the
\* totals are only displayed), and the toggle button of one listed order
\* reports the click that caused this run
AdminRun(s) ==
    /\ sess[s].pc = "idle"
    /\ LET orders == load_orders(orders_csv)
       IN  \E i \in 1..Len(orders) :
              sess' = [sess EXCEPT ![s] =
                          [Idle EXCEPT !.pc = "toggle_load",
                                       !.target = orders[i].order_id]]
    /\ UNCHANGED <<orders_csv, items_csv, excel, clock, issued>>

\* the button's body up to the flip: the orders are read again and the
\* target's flag is flipped in the frame
ToggleLoad(s) ==
    /\ sess[s].pc = "toggle_load"
    /\ Mask(load_orders(orders_csv), sess[s].target) # {}
    /\ sess' = [sess EXCEPT
           ![s].pc = "toggle_save",
           ![s].orders_df = toggle_paid(load_orders(orders_csv), sess[s].target)]
    /\ UNCHANGED <<orders_csv, items_csv, excel, clock, issued>>

\* the same with the target absent from the orders read again: .iloc[0] of
\* an empty selection raises IndexError and the run ends with it
ToggleLoadMissing(s) ==
    /\ sess[s].pc = "toggle_load"
    /\ Mask(load_orders(orders_csv), sess[s].target) = {}
    /\ sess' = [sess EXCEPT ![s] =
                   [Idle EXCEPT !.result = "IndexError"]]
    /\ UNCHANGED <<orders_csv, items_csv, excel, clock, issued>>

\* save_orders(all_orders); "updated"; st.rerun()
ToggleSave(s) ==
    /\ sess[s].pc = "toggle_save"
    /\ orders_csv' = save_orders(sess[s].orders_df)
    /\ sess' = [sess EXCEPT ![s] = Idle]
    /\ UNCHANGED <<items_csv, excel, clock, issued>>

-----------------------------------------------------------------------------
(* The program *)

NoCut == [pc |-> "off", cutoff_str |-> <<>>, now |-> NoTime, passed |-> FALSE,
          cutoff |-> NoTime]

NoView == [pc |-> "off", items |-> <<>>, agg |-> {}, again |-> {}]

NoHist == [overlapped |-> FALSE, tg_n |-> 0, tg_oid |-> <<>>, tg_before |-> <<>>]

\* after construction: init_csv has written the two empty files
Init ==
    /\ orders_csv = <<>>
    /\ items_csv = <<>>
    /\ excel = <<>>
    /\ clock = 0
    /\ issued = 0
    /\ sess = [s \in Sessions |-> Idle]
    /\ hist = NoHist
    /\ cut = NoCut
    /\ view = NoView

\* the step of session s reads or writes a stored collection
Touches(s) ==
    sess[s].pc \in {"load_orders", "load_items", "save_orders", "save_items",
                    "toggle_load", "toggle_save"}

\* history: a session touched the store while another was between its first
\* load and its last save
Overlap(s) == Touches(s) /\ \E t \in Sessions \ {s} : InFlight(t)

\* what the users of the two concurrent sessions type
RaceNames == { <<" ", "A">> }

RaceNotes == { <<"o", "k", " ">> }

RaceDrafts == { <<TeaSp, Blank>> }

\* a step of session s together with the history it leaves
Track(s, step) ==
    /\ step
    /\ hist' = [hist EXCEPT !.overlapped = @ \/ Overlap(s)]
    /\ UNCHANGED <<cut, view>>

\* two sessions whose runs interleave at every load and save
Next ==
    \E s \in Sessions :
       \/ Track(s, OrderingRun(s, RaceNames, RaceNotes, RaceDrafts))
       \/ Track(s, Validate(s))
       \/ Track(s, LoadOrders(s))
       \/ Track(s, LoadItems(s))
       \/ Track(s, SaveOrders(s))
       \/ Track(s, SaveItems(s))
       \/ Track(s, ExcelAppend(s))
       \/ Track(s, AdminRunEmpty(s))
       \/ Track(s, AdminRun(s))
       \/ Track(s, ToggleLoad(s))
       \/ Track(s, ToggleLoadMissing(s))
       \/ Track(s, ToggleSave(s))

Spec == Init /\ [][Next]_vars

\* a step that leaves no history
Plain(step) == step /\ UNCHANGED <<hist, cut, view>>

\* one session submitting any draft while the wall clock advances
NextForm ==
    \/ Plain(Tick)
    \/ Plain(OrderingRunClosed("s1"))
    \/ Plain(OrderingRun("s1", Names, Notes, Drafts))
    \/ Plain(Validate("s1"))
    \/ Plain(LoadOrders("s1"))
    \/ Plain(LoadItems("s1"))
    \/ Plain(SaveOrders("s1"))
    \/ Plain(SaveItems("s1"))
    \/ Plain(ExcelAppend("s1"))

SpecForm == Init /\ [][NextForm]_vars

-----------------------------------------------------------------------------
(* cutoff_state on its own *)

CutoffStrings ==
    { <<"1", "2", ":", "3", "0">>,
      <<" ", "1", "8", ":", "0", "0", " ">>,
      <<"9", ":", "0", "5">>,
      CUTOFF,
      <<"2", "0", "2", "5", "/", "1", "0", "/", "1", "4", ",", " ", "1", "8", ":", "0", "0">>,
      <<"2", "0", "2", "5", "-", "1", "0", "-", "1", "4", ",", " ", "1", "8", ":", "0", "0">>,
      <<"2", "0", "2", "5", "-", "1", "0", "-", "1", "4", " ", "1", "8", ":", "0", "0">>,
      <<"2", "0", "2", "5", "/", "2", "/", "3", "0", " ", "1", "2", ":", "3", "0">>,
      <<"2", "4", ":", "0", "0">>,
      <<"1", "2", ":", "3", "0", ":", "0", "0">>,
      <<"1", "0", "yue", "1", "4">> }

NowChoices ==
    { DateTime(d[1], d[2], d[3], t[1], t[2], t[3]) :
        d \in { <<2025, 10, 13>>, <<2025, 10, 14>>, <<2025, 10, 15>>, <<2026, 1, 1>> },
        t \in { <<0, 0, 0>>, <<9, 5, 0>>, <<12, 29, 59>>, <<12, 30, 0>>, <<12, 30, 1>>,
                <<17, 59, 59>>, <<18, 0, 0>> } }

InitCutoff ==
    /\ orders_csv = <<>> /\ items_csv = <<>> /\ excel = <<>>
    /\ clock = 0 /\ issued = 0
    /\ sess = [s \in Sessions |-> Idle]
    /\ hist = NoHist
    /\ view = NoView
    /\ \E c \in CutoffStrings, n \in NowChoices :
          cut = [NoCut EXCEPT !.pc = "start", !.cutoff_str = c, !.now = n]

\* passed, msg = cutoff_state(cutoff_str), called at the instant now
EvaluateCutoff ==
    /\ cut.pc = "start"
    /\ cut' = [cut EXCEPT !.pc = "done",
                          !.passed = cutoff_state(cut.cutoff_str, cut.now).passed,
                          !.cutoff = cutoff_state(cut.cutoff_str, cut.now).cutoff]
    /\ UNCHANGED <<orders_csv, items_csv, excel, clock, issued, sess, hist, view>>

NextCutoff == EvaluateCutoff

SpecCutoff == InitCutoff /\ [][NextCutoff]_vars

-----------------------------------------------------------------------------
(* The item summary on its own *)

Pie == <<"P", "i", "e">>

\* the line items a loaded frame may hold
ItemChoices ==
    { [order_id |-> uuid4_hex(0), item_name |-> n, qty |-> q, unit_price |-> p] :
        n \in {Tea, Pie}, q \in {1, 2, 3}, p \in {60, 50, 1} }

RECURSIVE SeqsUpTo(_, _)
SeqsUpTo(S, n) ==
    IF n = 0 THEN { <<>> }
    ELSE SeqsUpTo(S, n - 1) \cup
         { Append(q, x) : q \in {r \in SeqsUpTo(S, n - 1) : Len(r) = n - 1}, x \in S }

\* the rows of items whose (item_name, unit_price) is k
GroupRows(items, k) ==
    {i \in 1..Len(items) : items[i].item_name = k[1] /\ items[i].unit_price = k[2]}

GroupKeysByName(items) ==
    { <<items[i].item_name, items[CHOOSE j \in 1..Len(items) :
                                     items[j].item_name = items[i].item_name].unit_price>> :
        i \in 1..Len(items) }

\* groupby(["item_name", "unit_price"]): the keys that occur
GroupKeys(items) ==
    { <<items[i].item_name, items[i].unit_price>> : i \in 1..Len(items) }

\* agg(total_qty=("qty", "sum")) of one group
TotalQty(items, k) ==
    SumOver([i \in 1..Len(items) |-> IF i \in GroupRows(items, k) THEN items[i].qty ELSE 0],
            Len(items))

\* the summary frame, as the set of its rows; amount is
\* (total_qty * unit_price).astype(int)
agg(items) ==
    { [item_name  |-> k[1],
       unit_price |-> k[2],
       total_qty  |-> TotalQty(items, k),
       amount     |-> int_of_halves(TotalQty(items, k) * k[2])] : k \in GroupKeys(items) }

InitAgg ==
    /\ orders_csv = <<>> /\ items_csv = <<>> /\ excel = <<>>
    /\ clock = 0 /\ issued = 0
    /\ sess = [s \in Sessions |-> Idle]
    /\ hist = NoHist
    /\ cut = NoCut
    /\ \E items \in SeqsUpTo(ItemChoices, MaxItems) :
          view = [NoView EXCEPT !.pc = "start", !.items = items]

\* confirm mode computes the summary of the loaded items
Summarise ==
    /\ view.pc = "start"
    /\ view' = [view EXCEPT !.pc = "shown", !.agg = agg(view.items)]
    /\ UNCHANGED <<orders_csv, items_csv, excel, clock, issued, sess, hist, cut>>

\* the next run computes it again from the same items
Resummarise ==
    /\ view.pc = "shown"
    /\ view' = [view EXCEPT !.pc = "again", !.again = agg(view.items)]
    /\ UNCHANGED <<orders_csv, items_csv, excel, clock, issued, sess, hist, cut>>

NextAgg == Summarise \/ Resummarise

SpecAgg == InitAgg /\ [][NextAgg]_vars

-----------------------------------------------------------------------------
(* The payment toggle on its own: one administrator, a stored collection *)

NameA == <<"A">>

\* a stored order as a submission leaves it, paid or not
StoredOrder(n, name, note, paid) ==
    [order_id |-> uuid4_hex(n), user_name |-> name, note |-> note,
     created_at |-> NowAt(0), is_paid |-> paid]

StoredItem(n) ==
    [order_id |-> uuid4_hex(n), item_name |-> Tea, qty |-> 2, unit_price |-> 60]

\* stored collections of one or two orders, identifiers unique
ToggleStores ==
    LET rows(n) == { StoredOrder(n, name, note, paid) :
                        name \in {NameA, <<"N", "A">>},
                        note \in {<<>>, <<"o", "k">>},
                        paid \in {PAID_YES, PAID_NO} }
    IN  { <<a>> : a \in rows(0) } \cup { <<a, b>> : a \in rows(0), b \in rows(1) }

InitToggle ==
    /\ orders_csv \in ToggleStores
    /\ items_csv = [i \in 1..Len(orders_csv) |-> StoredItem(i - 1)]
    /\ excel = <<>>
    /\ clock = 0
    /\ issued = Len(orders_csv)
    /\ sess = [s \in Sessions |-> Idle]
    /\ hist = NoHist
    /\ cut = NoCut
    /\ view = NoView

\* the administrator toggles one order, then the same order again; the
\* history keeps the collection as stored before the first toggle
NextToggle ==
    \/ /\ hist.tg_n < 2
       /\ AdminRun("s1")
       /\ hist.tg_n = 1 => sess'["s1"].target = hist.tg_oid
       /\ hist' = [hist EXCEPT !.tg_oid = sess'["s1"].target,
                               !.tg_before = IF hist.tg_n = 0 THEN orders_csv ELSE @]
       /\ UNCHANGED <<cut, view>>
    \/ Plain(ToggleLoad("s1"))
    \/ /\ ToggleSave("s1")
       /\ hist' = [hist EXCEPT !.tg_n = @ + 1]
       /\ UNCHANGED <<cut, view>>

SpecToggle == InitToggle /\ [][NextToggle]_vars

-----------------------------------------------------------------------------
(* Properties *)

\* minutes since a fixed origin; strictly increasing in the date and the
\* time of day
MinuteStamp(dt) == ((((dt.Y * 12 + dt.m) * 31 + dt.d) * 24 + dt.H) * 60) + dt.M

\* a is the instant b or a later one
AtOrAfter(a, b) ==
    \/ MinuteStamp(a) > MinuteStamp(b)
    \/ MinuteStamp(a) = MinuteStamp(b) /\ a.S >= b.S

\* the deadline each accepted string denotes at the instant now
AcceptedDeadline(c, now) ==
    CASE c = <<"1", "2", ":", "3", "0">> ->
            DateTime(now.Y, now.m, now.d, 12, 30, 0)
      [] c = <<" ", "1", "8", ":", "0", "0", " ">> ->
            DateTime(now.Y, now.m, now.d, 18, 0, 0)
      [] c = <<"9", ":", "0", "5">> ->
            DateTime(now.Y, now.m, now.d, 9, 5, 0)
      [] c = CUTOFF ->
            DateTime(2025, 10, 14, 12, 30, 0)
      [] OTHER ->
            DateTime(2025, 10, 14, 18, 0, 0)

\* the drawn strings that are in an accepted layout
AcceptedStrings ==
    { <<"1", "2", ":", "3", "0">>,
      <<" ", "1", "8", ":", "0", "0", " ">>,
      <<"9", ":", "0", "5">>,
      CUTOFF,
      <<"2", "0", "2", "5", "/", "1", "0", "/", "1", "4", ",", " ", "1", "8", ":", "0", "0">>,
      <<"2", "0", "2", "5", "-", "1", "0", "-", "1", "4", ",", " ", "1", "8", ":", "0", "0">> }

\* C1: for a deadline string in an accepted layout (a bare HH:MM read as
\* today, or a date-time layout) and any instant now, cutoff_state returns
\* passed = TRUE exactly when now is the deadline or later.
C1_PassedIffDeadlineReached ==
    (cut.pc = "done" /\ cut.cutoff_str \in AcceptedStrings) =>
        (cut.passed <=> AtOrAfter(cut.now, AcceptedDeadline(cut.cutoff_str, cut.now)))

\* C1 witness: the configured deadline evaluated at the very instant it
\* names; the evaluation reports it passed.
C1_Witness ==
    /\ cut.pc = "done"
    /\ cut.cutoff_str = CUTOFF
    /\ cut.now = DateTime(2025, 10, 14, 12, 30, 0)
    /\ cut.passed


\* the deadline the configured CUTOFF names
Deadline == DateTime(2025, 10, 14, 12, 30, 0)

\* C2: once the cut-off has passed no submission is accepted: every stored
\* order carries a creation timestamp strictly before the deadline, also
\* when time advances between the cut-off check and the timestamp.
C2_StoredOrdersPrecedeDeadline ==
    \A i \in 1..Len(orders_csv) : ~AtOrAfter(orders_csv[i].created_at, Deadline)

\* a draft that validation must refuse
C3_Invalid(r) ==
    \/ strip(r.name) = <<>>
    \/ \A i \in 1..Len(r.rows) :
          strip(r.rows[i].item_name) = <<>> \/ r.rows[i].qty <= 0

C3_SubmitPcs ==
    {"validate", "load_orders", "load_items", "save_orders", "save_items", "excel"}

\* C3: a submission whose trimmed name is empty, or none of whose rows has a
\* non-empty trimmed item name and a quantity above 0, is rejected with the
\* matching error (EmptyName first) and leaves the stored orders and the
\* stored line items as they were.
C3_InvalidDraftNeverReachesStorage ==
    [][\A s \in Sessions :
          (sess[s].pc \in C3_SubmitPcs /\ C3_Invalid(sess[s]) /\ sess'[s] # sess[s]) =>
              /\ sess'[s].pc = "idle"
              /\ sess'[s].result =
                    IF strip(sess[s].name) = <<>> THEN "EmptyName" ELSE "NoValidItems"
              /\ orders_csv' = orders_csv
              /\ items_csv' = items_csv]_vars

\* C3 witness: a submission was rejected for its rows while an earlier order
\* and its line items were in storage.
C3_Witness ==
    /\ sess["s1"].pc = "idle"
    /\ sess["s1"].result = "NoValidItems"
    /\ Len(orders_csv) > 0
    /\ Len(items_csv) > 0

\* the line items a draft stands for: one per row with a non-empty trimmed
\* item name and a quantity above 0
C4_ExpectedItems(r) ==
    LET kept == SelectSeq(r.rows, LAMBDA x : strip(x.item_name) # <<>> /\ x.qty > 0)
    IN  [i \in 1..Len(kept) |->
            [order_id |-> r.oid, item_name |-> strip(kept[i].item_name),
             qty |-> kept[i].qty, unit_price |-> kept[i].unit_price]]

\* C4: a successful submission appends exactly one order (trimmed name,
\* trimmed note, unpaid) and one line item per valid row, and leaves every
\* order and line item stored before unchanged.
C4_SubmissionOnlyAppends ==
    [][\A s \in Sessions :
          /\ (sess[s].pc = "save_orders" /\ sess'[s].pc = "save_items") =>
                orders_csv' =
                    Append(orders_csv,
                           [order_id |-> sess[s].oid, user_name |-> strip(sess[s].name),
                            note |-> strip(sess[s].note), created_at |-> sess[s].now,
                            is_paid |-> PAID_NO])
          /\ (sess[s].pc = "save_items" /\ sess'[s].pc = "excel") =>
                items_csv' = items_csv \o C4_ExpectedItems(sess[s])]_vars

\* every line item names a stored order
C5_Referential ==
    \A i \in 1..Len(items_csv) :
        \E j \in 1..Len(orders_csv) : orders_csv[j].order_id = items_csv[i].order_id

\* C5 as stated: every stored line item carries the identifier of a stored
\* order, in every reachable state, also when the loads and saves of two
\* sessions interleave.
C5_ItemsReferenceStoredOrders == C5_Referential

\* C5 amended: the same, as long as no session has read or written the
\* store while another was between its first load and its last save.
C5_SerialItemsReferenceStoredOrders == ~hist.overlapped => C5_Referential

\* C5 witness: two orders with their line items stored and one of them
\* toggled to paid, without any overlap of sessions.
C5_Witness ==
    /\ ~hist.overlapped
    /\ Len(orders_csv) = 2
    /\ Len(items_csv) = 2
    /\ \E j \in 1..2 : orders_csv[j].is_paid = PAID_YES
    /\ \A s \in Sessions : sess[s].pc = "idle"

\* C6: toggling the same stored order twice in succession, nothing else
\* written in between, leaves the stored order collection identical to the
\* one before the two toggles.
C6_ToggleTwiceRestores == hist.tg_n = 2 => orders_csv = hist.tg_before

\* C7: a toggle whose order is absent from the orders read again is a no-op
\* with a warning: it does not fail abnormally and the stored orders stay.
C7_ToggleOfMissingOrderIsNoOp ==
    [][\A s \in Sessions :
          (/\ sess[s].pc = "toggle_load"
           /\ sess'[s] # sess[s]
           /\ \A i \in 1..Len(orders_csv) : orders_csv[i].order_id # sess[s].target) =>
              /\ sess'[s].result # "IndexError"
              /\ orders_csv' = orders_csv]_vars


\* the example of the specification: Tea at 30 twice (2 and 3) and Tea at 25
\* once (1)
C8_TeaExample ==
    << [order_id |-> uuid4_hex(0), item_name |-> Tea, qty |-> 2, unit_price |-> 60],
       [order_id |-> uuid4_hex(0), item_name |-> Tea, qty |-> 3, unit_price |-> 60],
       [order_id |-> uuid4_hex(0), item_name |-> Tea, qty |-> 1, unit_price |-> 50] >>

\* the quantity of the first n items with the given name and price
RECURSIVE C8_QtySum(_, _, _, _)
C8_QtySum(items, name, price, n) ==
    IF n = 0 THEN 0
    ELSE C8_QtySum(items, name, price, n - 1) +
         (IF items[n].item_name = name /\ items[n].unit_price = price
          THEN items[n].qty ELSE 0)

\* C8: the summary has exactly one row per (item name, unit price) pair that
\* occurs in the items and no other row; a row's quantity is the sum of the
\* quantities of the items with its pair and its amount is that sum times
\* the unit price, truncated; the Tea example gives (Tea, 30) -> 5, 150 and
\* (Tea, 25) -> 1, 25; computing it again from the same items gives the
\* same rows.
C8_OneRowPerNameAndPrice ==
    view.pc \in {"shown", "again"} =>
        /\ \A i \in 1..Len(view.items) :
              Cardinality({r \in view.agg :
                              /\ r.item_name = view.items[i].item_name
                              /\ r.unit_price = view.items[i].unit_price}) = 1
        /\ \A r \in view.agg :
              /\ \E i \in 1..Len(view.items) :
                    /\ r.item_name = view.items[i].item_name
                    /\ r.unit_price = view.items[i].unit_price
              /\ r.total_qty =
                    C8_QtySum(view.items, r.item_name, r.unit_price, Len(view.items))
              /\ r.amount = (r.total_qty * r.unit_price) \div 2
        /\ view.items = C8_TeaExample =>
              view.agg =
                  { [item_name |-> Tea, unit_price |-> 60, total_qty |-> 5, amount |-> 150],
                    [item_name |-> Tea, unit_price |-> 50, total_qty |-> 1, amount |-> 25] }
        /\ view.pc = "again" => view.again = view.agg

\* C8 witness: the Tea example summarised, and summarised again.
C8_Witness ==
    /\ view.pc = "again"
    /\ view.items = C8_TeaExample
    /\ Cardinality(view.agg) = 2

\* the identifiers and flags of a collection of orders, row by row
C9_IdsAndFlags(rows) ==
    [i \in 1..Len(rows) |-> <<rows[i].order_id, rows[i].is_paid>>]

\* C9: the stored orders are written last-write-wins as a whole: a session's
\* save leaves in storage exactly the rows of the frame it loaded earlier
\* with its own change applied, whatever was stored by others since, and the
\* session ends without an error. (The reachable loss is C9_Witness.)
C9_SaveReplacesWholeCollection ==
    [][\A s \in Sessions :
          (sess[s].pc \in {"save_orders", "toggle_save"} /\ sess'[s] # sess[s]) =>
              /\ C9_IdsAndFlags(orders_csv') = C9_IdsAndFlags(sess[s].orders_df)
              /\ sess'[s].result = "ok"]_vars

\* C9 witness: both sessions have ended their runs without an error, the
\* ledger shows a submitted order, and that order is absent from the stored
\* orders: the other session's save overwrote it.
C9_Witness ==
    /\ hist.overlapped
    /\ \A s \in Sessions : sess[s].pc = "idle" /\ sess[s].result = "ok"
    /\ \E k \in 1..Len(excel) :
          \A j \in 1..Len(orders_csv) : orders_csv[j].order_id # excel[k].order_id

\* C10: the total written into an order's ledger row equals that order's
\* Order Total, the truncated sum of quantity x unit price over the line
\* items stored for the order.
C10_LedgerTotalIsOrderTotal ==
    \A k \in 1..Len(excel) :
        excel[k].total = order_total(load_order_items(items_csv), excel[k].order_id)

=============================================================================
